---- MODULE Spec2Model ----
(***************************************************************************)
(* The radar-triggered capture and logging engine of the traffic logger:   *)
(* LowPowerStrategy (detection_logic.py) with the selector                  *)
(* HailoModel.find_best_detection (main.py).                                *)
(*                                                                         *)
(* Units.  Speeds read from the radar are in mm/s (Speed_mps * 1000) and   *)
(* speed_kph is in 1/100 km/h, so that round(.., 2) is integer rounding.   *)
(* The monotonic clock counts ticks; the deployment settings of the        *)
(* modelled deployment (shot_interval_sec, cooldown_config_sec) are given  *)
(* in ticks.  Positions are pixels of the 1536 x 864 capture frame.        *)
(***************************************************************************)
EXTENDS Integers, Sequences, FiniteSets, TLC

\* ---------------------------------------------------------------- bounds
MaxSeen == 3        \* most detections the captures of one radar event return
MaxTime == 2        \* no radar reading is delivered after this tick
MaxIdle == 1        \* longest wait for the next radar line, in ticks
MaxShift == 6       \* largest displacement, per axis, of the near range

\* ------------------------------------------------ deployment and hardware
LOGGER_CAPTURE_WIDTH == 1536
LOGGER_CAPTURE_HEIGHT == 864
GRID_COLS == 32
GRID_ROWS == 18

\* picam2.camera_configuration()['main']['size']
cam_size == <<LOGGER_CAPTURE_WIDTH, LOGGER_CAPTURE_HEIGHT>>
grid_dims == <<GRID_COLS, GRID_ROWS>>

vehicle_classes == {"car", "motorcycle", "bus", "truck"}
vehicle_speed_kph == 800
low_speed_kph == 200
shot_interval_sec == 1
cooldown_config_sec == [default |-> 2, person |-> 2, bicycle |-> 3]

\* zone_map["zones"] as written by save_settings
zone_names == [z \in {0, 1, 2, 3} |->
                 CASE z = 0 -> "ignore"
                   [] z = 1 -> "road"
                   [] z = 2 -> "sidewalk"
                   [] z = 3 -> "bike_lane"]

\* zone_map["map"][row][col] of the modelled deployment: the left third of
\* the frame is masked out, then comes the sidewalk, the road, and on the
\* right a bike lane above a strip whose zone-id (4) has no name.
zone_map_grid(row, col) ==
    IF col < 10 THEN 0
    ELSE IF col < 16 THEN 2
    ELSE IF col < 24 THEN 1
    ELSE IF row < 9 THEN 3 ELSE 4

\* zone_map.json of the modelled deployment
zone_map ==
    [dims  |-> grid_dims,
     zones |-> zone_names,
     map   |-> [r \in 1..GRID_ROWS |->
                 [c \in 1..GRID_COLS |-> zone_map_grid(r - 1, c - 1)]]]

\* ------------------------------------------------------------ input sets
\* The classes the modelled detector reports.
Classes == {"car", "person", "bicycle"}

Det(t, x, y) ==
    [type |-> t, confidence |-> 90, box_center |-> [x |-> x, y |-> y]]

\* What one frame can contain: a car far from the centre, a person and a
\* bicycle at the frame centre (w/2, h/2), and a bicycle at (h/2, w/2),
\* which lies in the masked-out zone.
Universe ==
    { Det("car", 1400, 800), Det("person", 768, 432),
      Det("bicycle", 768, 432), Det("bicycle", 432, 768) }

\* The detection lists of at most n detections
DetLists(n) == UNION { [1..k -> Universe] : k \in 0..n }

\* What picam2.capture_array() + run_inference do: return a list (here of
\* at most n detections) or raise.
Outcomes(n) ==
    { [ok |-> TRUE, dets |-> l] : l \in DetLists(n) }
        \cup { [ok |-> FALSE, dets |-> <<>>] }

\* Radar readings in mm/s: 1.8 km/h, 1.998 km/h (rounds to 2.00) and
\* 7.9992 km/h (rounds to 8.00).
Speeds == {500, 555, 2222}

\* Zone maps a deployment folder can hold: the modelled deployment's, one
\* saved without a mask (no grid), one whose grid has only the upper nine
\* rows, one whose rows have only the left sixteen columns, and a complete
\* map of 4 x 3 cells.
ZoneMaps ==
    [complete   |-> zone_map,
     missing    |-> [zone_map EXCEPT !.map = <<>>],
     short_rows |-> [zone_map EXCEPT !.map = SubSeq(zone_map.map, 1, 9)],
     short_cols |-> [zone_map EXCEPT !.map =
                        [r \in 1..GRID_ROWS |-> SubSeq(zone_map.map[r], 1, 16)]],
     coarse     |-> [dims  |-> <<4, 3>>,
                     zones |-> zone_names,
                     map   |-> << <<0, 1, 1, 2>>, <<1, 1, 3, 2>>, <<7, 1, 3, 0>> >>]]

\* Box centres int(box[0] * width), int(box[1] * height): inside the frame,
\* on its edges, at cell borders and outside.
Xs == {-48, -1, 0, 47, 48, 383, 384, 767, 768, 1151, 1152, 1535, 1536, 2000}
Ys == {-48, -1, 0, 47, 48, 287, 288, 431, 432, 575, 576, 863, 864, 1000}

\* deployment_info["bearing"] values: the four the compass maps know and
\* three they do not.
Bearings == {0, 90, 180, 270, 45, 360, -90}

\* Displacements per axis: the near range and a long move either way.
Shifts == (-MaxShift..MaxShift) \cup {-40, 40}

VARIABLES
    now,               \* time.monotonic()
    cooldown_timers,   \* self.cooldown_timers, read with .get(cls, 0)
    ev,                \* the radar event just processed: its reading, the
                       \* classes on cooldown when it arrived, and what
                       \* process_radar_trigger did
    call               \* the last direct call of _get_location_type or
                       \* _calculate_direction: its arguments and result

vars == <<now, cooldown_timers, ev, call>>

\* ------------------------------------------------------- pure functions
\* round(Speed_mps * 3.6, 2)
SpeedKph(speed_mps) == (speed_mps * 36 + 50) \div 100

\* Mutant: the quotient is rounded down instead of toward zero.
TruncDiv_Floor(a, b) == a \div b

\* int(): truncation toward zero
TruncDiv(a, b) == IF a >= 0 THEN a \div b ELSE -((-a) \div b)

\* _get_location_type on the zone map zm (its dims, zones and map).  The
\* subscript zone_map_grid[row][col] raises when the grid has no such row
\* or the row no such column; the result is then "IndexError".
GetLocationTypeOn(zm, x, y) ==
    LET grid_cols == zm.dims[1]
        grid_rows == zm.dims[2]
        w == cam_size[1]
        h == cam_size[2]
        col == TruncDiv(x * grid_cols, w)
        row == TruncDiv(y * grid_rows, h)
    IN  IF 0 <= row /\ row < grid_rows /\ 0 <= col /\ col < grid_cols
        THEN IF row + 1 \in DOMAIN zm.map /\ col + 1 \in DOMAIN zm.map[row + 1]
             THEN LET zone_id == zm.map[row + 1][col + 1]
                  IN  IF zone_id \in DOMAIN zm.zones
                      THEN zm.zones[zone_id] ELSE "unknown"
             ELSE "IndexError"
        ELSE "out_of_bounds"

\* _get_location_type in the modelled deployment, whose grid has a cell for
\* every row and column of its dims.
GetLocationType(x, y) == GetLocationTypeOn(zone_map, x, y)

CompassMaps ==
    [b \in {0, 90, 180, 270} |->
        CASE b = 0   -> [Up |-> "N", Down |-> "S", Left |-> "W", Right |-> "E"]
          [] b = 90  -> [Up |-> "E", Down |-> "W", Left |-> "N", Right |-> "S"]
          [] b = 180 -> [Up |-> "S", Down |-> "N", Left |-> "E", Right |-> "W"]
          [] b = 270 -> [Up |-> "W", Down |-> "E", Left |-> "S", Right |-> "N"]]

camera_bearing == 0

Abs(n) == IF n < 0 THEN -n ELSE n

\* Mutant: the boundaries at +-45 degrees go to Down and Up.
RelDirection_OpenBoundary(dx, dy) ==
    IF dx > 0 /\ Abs(dy) < dx THEN "Right"
    ELSE IF dy > 0 /\ dy >= Abs(dx) THEN "Down"
    ELSE IF dy < 0 /\ -dy >= Abs(dx) THEN "Up"
    ELSE "Left"

\* The quadrant of atan2(dy, dx) in degrees
RelDirection(dx, dy) ==
    IF dx > 0 /\ Abs(dy) <= dx THEN "Right"
    ELSE IF dy > 0 /\ dy > Abs(dx) THEN "Down"
    ELSE IF dy < 0 /\ -dy > Abs(dx) THEN "Up"
    ELSE "Left"

\* Mutant: the camera-relative label is returned without its prefix.
RelLabel_Bare(rel) == rel

\* f"Rel_{rel}"
RelLabel(rel) ==
    CASE rel = "Right" -> "Rel_Right"
      [] rel = "Down"  -> "Rel_Down"
      [] rel = "Up"    -> "Rel_Up"
      [] rel = "Left"  -> "Rel_Left"

\* Mutant: the bearing is looked at before the displacement, so that an
\* unknown bearing never gives "Stationary".
CalculateDirectionAt_BearingFirst(bearing, start_pos, end_pos) ==
    LET dx == end_pos.x - start_pos.x
        dy == end_pos.y - start_pos.y
        rel == RelDirection(dx, dy)
    IN  IF bearing \notin DOMAIN CompassMaps THEN RelLabel(rel)
        ELSE IF Abs(dx) < 5 /\ Abs(dy) < 5 THEN "Stationary"
        ELSE CompassMaps[bearing][rel]

\* _calculate_direction of a strategy whose camera_bearing is bearing
CalculateDirectionAt(bearing, start_pos, end_pos) ==
    LET dx == end_pos.x - start_pos.x
        dy == end_pos.y - start_pos.y
    IN  IF Abs(dx) < 5 /\ Abs(dy) < 5 THEN "Stationary"
        ELSE LET rel == RelDirection(dx, dy)
             IN  IF bearing \in DOMAIN CompassMaps
                 THEN CompassMaps[bearing][rel]
                 ELSE RelLabel(rel)

\* _calculate_direction in the modelled deployment
CalculateDirection(start_pos, end_pos) ==
    CalculateDirectionAt(camera_bearing, start_pos, end_pos)

\* Four times the squared distance of d to (cx2/2, cy2/2): the key of the
\* min(...) calls, compared without the square root.
Dist2(d, cx2, cy2) ==
    (2 * d.box_center.x - cx2) * (2 * d.box_center.x - cx2)
        + (2 * d.box_center.y - cy2) * (2 * d.box_center.y - cy2)

\* min(detections, key=distance): the first detection of least distance
MinByDistance(detections, cx2, cy2) ==
    detections[CHOOSE i \in DOMAIN detections :
        \A j \in DOMAIN detections :
            \/ Dist2(detections[i], cx2, cy2) < Dist2(detections[j], cx2, cy2)
            \/ /\ Dist2(detections[i], cx2, cy2) = Dist2(detections[j], cx2, cy2)
               /\ i <= j]

\* HailoModel.find_best_detection(detections, capture_shape), strategy
\* 'center': <<>> stands for None, <<d>> for the detection d.
FindBestDetection(detections, capture_shape) ==
    IF detections = <<>> THEN <<>>
    ELSE <<MinByDistance(detections, capture_shape[2], capture_shape[1])>>

\* Mutant: a failed capture leaves a detection behind instead of nothing.
CaptureAndAnalyze_NotEmptied(outcome) ==
    IF outcome.ok THEN outcome.dets ELSE <<Det("car", 1400, 800)>>

\* _capture_and_analyze: an exception becomes the empty list
CaptureAndAnalyze(outcome) == IF outcome.ok THEN outcome.dets ELSE <<>>

Range(f) == { f[i] : i \in DOMAIN f }

\* self.cooldown_timers.get(cls, 0)
TimerOf(timers, cls) == timers[cls]

\* Mutant: the per-class setting is not looked up, the default is used.
CooldownPeriod_DefaultOnly(type) == cooldown_config_sec.default

\* self.cooldown_config_sec.get(type, self.cooldown_config_sec.get("default", 5.0))
CooldownPeriod(type) ==
    IF type \in DOMAIN cooldown_config_sec
    THEN cooldown_config_sec[type] ELSE cooldown_config_sec.default

\* Mutant: the vehicle-class preference is lost, the nearest detection wins.
PrimaryTarget_NearestOnly(detections) ==
    MinByDistance(detections, cam_size[1], cam_size[2])

\* The primary target of _log_all_detections: the first vehicle-class
\* detection, else the detection nearest to (w/2, h/2).
PrimaryTarget(detections) ==
    IF \E i \in DOMAIN detections : detections[i].type \in vehicle_classes
    THEN detections[CHOOSE i \in DOMAIN detections :
            /\ detections[i].type \in vehicle_classes
            /\ \A j \in 1..(i - 1) : detections[j].type \notin vehicle_classes]
    ELSE MinByDistance(detections, cam_size[1], cam_size[2])

\* Mutant: the ignore zone is not filtered out.
Discarded_Never(location) == FALSE

\* if location == 'ignore': continue
Discarded(location) == location = "ignore"

\* d == primary_target, the equality of two dicts
IsPrimary(d, primary_target) == d = primary_target

\* Mutant: the expiry is counted back from the clock instead of forward.
NewExpiry_Backward(tlog, type) == CooldownPeriod(type) - tlog

\* time.monotonic() + cooldown_period
NewExpiry(tlog, type) == tlog + CooldownPeriod(type)

\* The row handed to csv_writer.writerow, without its wall-clock timestamp.
\* The speed field is <<"kph", v>> or <<"Associated", 0>>.
LogEntry(d, speed_kph, primary_direction, primary_target, location) ==
    [type       |-> d.type,
     confidence |-> d.confidence,
     speed      |-> IF IsPrimary(d, primary_target)
                    THEN <<"kph", speed_kph>> ELSE <<"Associated", 0>>,
     direction  |-> IF IsPrimary(d, primary_target)
                    THEN primary_direction ELSE "Associated",
     location   |-> location,
     x          |-> d.box_center.x,
     y          |-> d.box_center.y]

\* Mutant: the cooldown period is added to an expiry that has not passed.
ArmCooldown_Cumulative(timers, type, tlog) ==
    [timers EXCEPT ![type] =
        IF @ > tlog THEN @ + CooldownPeriod(type) ELSE NewExpiry(tlog, type)]

\* Mutant: a write re-arms the cooldown of every class.
ArmCooldown_AllClasses(timers, type, tlog) ==
    [cls \in DOMAIN timers |-> NewExpiry(tlog, cls)]

\* self.cooldown_timers[d['type']] = time.monotonic() + cooldown_period
ArmCooldown(timers, type, tlog) ==
    [timers EXCEPT ![type] = NewExpiry(tlog, type)]

\* for d in detections: ... of _log_all_detections; acc is the rows written
\* and the cooldown timers so far.
RECURSIVE LogLoop(_, _, _, _, _, _)
LogLoop(detections, primary_target, speed_kph, primary_direction, tlog, acc) ==
    IF detections = <<>> THEN acc
    ELSE LET d == Head(detections)
             location == GetLocationType(d.box_center.x, d.box_center.y)
             step ==
                 IF Discarded(location) THEN acc
                 ELSE [rows   |-> Append(acc.rows,
                                    LogEntry(d, speed_kph, primary_direction,
                                             primary_target, location)),
                       timers |-> ArmCooldown(acc.timers, d.type, tlog)]
         IN  LogLoop(Tail(detections), primary_target, speed_kph,
                     primary_direction, tlog, step)

\* _log_all_detections at clock value tlog: the rows written, the timers
\* afterwards and the primary target (<<>> when the list is empty).
LogAllDetections(detections, speed_kph, primary_direction, tlog, timers) ==
    IF detections = <<>>
    THEN [rows |-> <<>>, timers |-> timers, primary |-> <<>>]
    ELSE LET primary_target == PrimaryTarget(detections)
         IN  LogLoop(detections, primary_target, speed_kph,
                     primary_direction, tlog,
                     [rows |-> <<>>, timers |-> timers])
                @@ [primary |-> <<primary_target>>]

\* ------------------------------------------------------------- the flows
\* A flow's result: the camera and sleep calls it made (<<"capture", t>> at
\* clock value t, <<"sleep", d>> for d ticks), the list each capture
\* returned, the list that survived the cooldown filter, the list handed
\* to _log_all_detections, the direction, the detections it was computed
\* from, the rows written, the primary target, the timers and the clock
\* afterwards.
FlowResult(calls, shots, valid, logged, direction, dir_from, log, tend) ==
    [calls |-> calls, shots |-> shots, valid |-> valid, logged |-> logged,
     direction |-> direction, dir_from |-> dir_from, tend |-> tend] @@ log

\* The outcome of the k-th capture; a capture the camera was not asked for
\* in this step has none.
OutcomeAt(outs, k) ==
    IF k <= Len(outs) THEN outs[k] ELSE [ok |-> FALSE, dets |-> <<>>]

\* best1 and best2 and best1['type'] == best2['type']
SameTarget(best1, best2) ==
    best1 # <<>> /\ best2 # <<>> /\ best1[1].type = best2[1].type

\* Mutant: the first cycle's detections are logged ahead of the second's.
TwoShotLogged_Both(detections1, detections2) == detections1 \o detections2

\* The list the two-shot flow hands to _log_all_detections
TwoShotLogged(detections1, detections2) == detections2

HandleHighSpeedEvent(speed_kph, outs, t0, timers) ==
    LET detections1 == CaptureAndAnalyze(OutcomeAt(outs, 1))
        t2 == t0 + shot_interval_sec
        detections2 == CaptureAndAnalyze(OutcomeAt(outs, 2))
        best1 == FindBestDetection(detections1, cam_size)
        best2 == FindBestDetection(detections2, cam_size)
        computed == detections1 # <<>> /\ detections2 # <<>>
                        /\ SameTarget(best1, best2)
        direction == IF computed
                     THEN CalculateDirection(best1[1].box_center,
                                             best2[1].box_center)
                     ELSE "N/A"
        logged == TwoShotLogged(detections1, detections2)
    IN  FlowResult(<< <<"capture", t0>>, <<"sleep", shot_interval_sec>>,
                      <<"capture", t2>> >>,
                   <<detections1, detections2>>, <<>>, logged,
                   direction,
                   IF computed THEN <<best1[1], best2[1]>> ELSE <<>>,
                   LogAllDetections(logged, speed_kph, direction,
                                    t2, timers),
                   t2)

\* current_time >= self.cooldown_timers.get(d['type'], 0)
NotOnCooldown(current_time, timers, cls) ==
    current_time >= TimerOf(timers, cls)

\* Mutant: the cooldown filter lets every detection through.
ValidDetections_Unfiltered(detections, current_time, timers) == detections

\* [d for d in detections if <d's class is not on cooldown>]
ValidDetections(detections, current_time, timers) ==
    SelectSeq(detections,
              LAMBDA d : NotOnCooldown(current_time, timers, d.type))

\* The classes on cooldown at clock value current_time
OnCooldown(current_time, timers) ==
    { cls \in Classes : ~NotOnCooldown(current_time, timers, cls) }

\* Mutant: every class is taken for a bicycle.
IsBicycle_Any(d) == TRUE

IsBicycle(d) == d.type = "bicycle"

\* Mutant: the second list replaces the first even when it is empty.
AfterSecondShot_Always(valid_detections, detections2) == detections2

\* The list logged after the second shot of the conditional-shot flow:
\* if detections2: ... valid_detections = detections2
AfterSecondShot(valid_detections, detections2) ==
    IF detections2 # <<>> THEN detections2 ELSE valid_detections

HandleLowSpeedEvent(speed_kph, outs, t0, timers) ==
    LET detections == CaptureAndAnalyze(OutcomeAt(outs, 1))
        nolog == [rows |-> <<>>, timers |-> timers, primary |-> <<>>]
        valid_detections == ValidDetections(detections, t0, timers)
        t2 == t0 + shot_interval_sec
        detections2 == CaptureAndAnalyze(OutcomeAt(outs, 2))
        bike1 == FindBestDetection(SelectSeq(valid_detections, IsBicycle),
                                   cam_size)
        bike2 == FindBestDetection(SelectSeq(detections2, IsBicycle),
                                   cam_size)
        computed == detections2 # <<>> /\ bike1 # <<>> /\ bike2 # <<>>
        direction == IF computed
                     THEN CalculateDirection(bike1[1].box_center,
                                             bike2[1].box_center)
                     ELSE "N/A"
        logged == AfterSecondShot(valid_detections, detections2)
    IN  IF detections = <<>>
        THEN FlowResult(<< <<"capture", t0>> >>, <<detections>>, <<>>, <<>>,
                        "N/A", <<>>, nolog, t0)
        ELSE IF valid_detections = <<>>
        THEN FlowResult(<< <<"capture", t0>> >>, <<detections>>, <<>>, <<>>,
                        "N/A", <<>>, nolog, t0)
        ELSE IF \E i \in DOMAIN valid_detections :
                    IsBicycle(valid_detections[i])
        THEN FlowResult(<< <<"capture", t0>>, <<"sleep", shot_interval_sec>>,
                           <<"capture", t2>> >>,
                        <<detections, detections2>>, valid_detections, logged,
                        direction,
                        IF computed THEN <<bike1[1], bike2[1]>> ELSE <<>>,
                        LogAllDetections(logged, speed_kph, direction,
                                         t2, timers),
                        t2)
        ELSE FlowResult(<< <<"capture", t0>> >>, <<detections>>,
                        valid_detections, valid_detections, "N/A", <<>>,
                        LogAllDetections(valid_detections, speed_kph, "N/A",
                                         t0, timers),
                        t0)

\* Mutant: all(...) instead of any(...).
GateOpen_All(current_time, timers) ==
    \A cls \in {"person", "bicycle"} : NotOnCooldown(current_time, timers, cls)

\* any(current_time >= timers.get(cls, 0) for cls in ['person', 'bicycle'])
GateOpen(current_time, timers) ==
    \E cls \in {"person", "bicycle"} : NotOnCooldown(current_time, timers, cls)

\* Mutant: the cooldown gate is applied to high-speed readings as well.
Branch_GateHigh(speed_kph, current_time, timers) ==
    IF speed_kph >= vehicle_speed_kph
    THEN IF GateOpen(current_time, timers) THEN "high" ELSE "suppressed"
    ELSE IF speed_kph >= low_speed_kph
         THEN IF GateOpen(current_time, timers) THEN "low" ELSE "suppressed"
    ELSE "ignored"

\* Mutant: the low-speed threshold is not tested.
Branch_NoLowThreshold(speed_kph, current_time, timers) ==
    IF speed_kph >= vehicle_speed_kph THEN "high"
    ELSE IF GateOpen(current_time, timers) THEN "low" ELSE "suppressed"

\* The branch process_radar_trigger takes
Branch(speed_kph, current_time, timers) ==
    IF speed_kph >= vehicle_speed_kph THEN "high"
    ELSE IF speed_kph >= low_speed_kph
         THEN IF GateOpen(current_time, timers) THEN "low" ELSE "suppressed"
    ELSE "ignored"

Flow(branch, speed_kph, outs, t0, timers) ==
    CASE branch = "high" -> HandleHighSpeedEvent(speed_kph, outs, t0, timers)
      [] branch = "low"  -> HandleLowSpeedEvent(speed_kph, outs, t0, timers)
      [] OTHER -> FlowResult(<<>>, <<>>, <<>>, <<>>, "N/A", <<>>,
                             [rows |-> <<>>, timers |-> timers,
                              primary |-> <<>>], t0)

Captures(calls) == SelectSeq(calls, LAMBDA c : c[1] = "capture")

\* How many captures the branch asks the camera for, given the first
\* capture's outcome.
ShotsTaken(branch, outs, t0, timers) ==
    CASE branch = "high" -> 2
      [] branch = "low" ->
            IF \E d \in Range(ValidDetections(
                            CaptureAndAnalyze(OutcomeAt(outs, 1)),
                            t0, timers)) : IsBicycle(d)
            THEN 2 ELSE 1
      [] OTHER -> 0

\* --------------------------------------------------------- state machine
NoEvent ==
    [branch |-> "wait", speed_mps |-> 0, speed_kph |-> 0, cooling |-> {},
     failed |-> {}, calls |-> <<>>, shots |-> <<>>, valid |-> <<>>, logged |-> <<>>,
     direction |-> "N/A", dir_from |-> <<>>, rows |-> <<>>, primary |-> <<>>]

NoCall == [fn |-> "none"]

Init ==
    /\ now = 0
    /\ cooldown_timers = [cls \in Classes |-> 0]
    /\ ev = NoEvent
    /\ call = NoCall

\* The logging loop blocks in radar_serial.readline() for idle ticks; the
\* record of the previous event is dropped.
RadarReadline(idle) ==
    /\ ev.branch # "wait" \/ idle > 0
    /\ now + idle <= MaxTime
    /\ now' = now + idle
    /\ ev' = NoEvent
    /\ UNCHANGED <<cooldown_timers, call>>

\* process_radar_trigger, run to completion on the reading speed_mps; outs
\* are the outcomes of the captures it asks for.  A capture and its
\* inference end within the tick they start in; time.sleep takes
\* shot_interval_sec ticks.
ProcessRadarTrigger(speed_mps, outs) ==
    /\ ev.branch = "wait"
    /\ UNCHANGED call
    /\ LET t0 == now
           speed_kph == SpeedKph(speed_mps)
           branch == Branch(speed_kph, t0, cooldown_timers)
       IN  /\ ShotsTaken(branch, outs, t0, cooldown_timers) = Len(outs)
           /\ \E r \in { Flow(branch, speed_kph, outs, t0, cooldown_timers) } :
                  /\ Len(Captures(r.calls)) = Len(outs)
                  /\ now' = r.tend
                  /\ cooldown_timers' = r.timers
                  /\ ev' = [branch |-> branch, speed_mps |-> speed_mps,
                            speed_kph |-> speed_kph,
                            cooling |-> OnCooldown(t0, cooldown_timers),
                            failed |-> { k \in DOMAIN outs : ~outs[k].ok },
                            calls |-> r.calls, shots |-> r.shots,
                            valid |-> r.valid, logged |-> r.logged,
                            direction |-> r.direction,
                            dir_from |-> r.dir_from, rows |-> r.rows,
                            primary |-> r.primary]

\* A radar line with a speed arrives: process_radar_trigger runs with the
\* outcomes of the captures it asks for, which return at most MaxSeen
\* detections in all.
RadarReading(speed_mps) ==
    /\ ev.branch = "wait"
    /\ \/ ProcessRadarTrigger(speed_mps, <<>>)
       \/ \E o1 \in Outcomes(MaxSeen) :
            \/ ProcessRadarTrigger(speed_mps, <<o1>>)
            \/ \E o2 \in Outcomes(MaxSeen - Len(o1.dets)) :
                    ProcessRadarTrigger(speed_mps, <<o1, o2>>)

Next ==
    \/ \E idle \in 0..MaxIdle : RadarReadline(idle)
    \/ \E speed_mps \in Speeds : RadarReading(speed_mps)

Spec == Init /\ [][Next]_vars

\* ------------------------------------------ the lookups, called directly
\* A strategy is constructed with one of the zone maps or one of the
\* bearings, and the lookup is about to be called with the arguments drawn.
PendingCalls ==
    { [fn |-> "_get_location_type", zone_map |-> name, x |-> x, y |-> y,
       result |-> "pending"] : name \in DOMAIN ZoneMaps, x \in Xs, y \in Ys }
    \cup
    { [fn |-> "_calculate_direction", bearing |-> bearing,
       start_pos |-> [x |-> 100, y |-> 100],
       end_pos |-> [x |-> 100 + dx, y |-> 100 + dy],
       result |-> "pending"] :
         bearing \in Bearings, dx \in Shifts, dy \in Shifts }

InitCalls ==
    /\ now = 0
    /\ cooldown_timers = [cls \in Classes |-> 0]
    /\ ev = NoEvent
    /\ call \in PendingCalls

\* _get_location_type(x, y) of a strategy constructed with the zone map
GetLocationTypeCall ==
    /\ call.fn = "_get_location_type"
    /\ call.result = "pending"
    /\ call' = [call EXCEPT !.result =
                    GetLocationTypeOn(ZoneMaps[call.zone_map], call.x, call.y)]
    /\ UNCHANGED <<now, cooldown_timers, ev>>

\* _calculate_direction(start_pos, end_pos) of a strategy constructed with
\* deployment_info["bearing"] = bearing
CalculateDirectionCall ==
    /\ call.fn = "_calculate_direction"
    /\ call.result = "pending"
    /\ call' = [call EXCEPT !.result =
                    CalculateDirectionAt(call.bearing, call.start_pos,
                                         call.end_pos)]
    /\ UNCHANGED <<now, cooldown_timers, ev>>

NextCalls == GetLocationTypeCall \/ CalculateDirectionCall

SpecCalls == InitCalls /\ [][NextCalls]_vars

\* ------------------------------------------------------------ properties
Handled == ev.branch # "wait"

IsCapture(c) == c[1] = "capture"

InIgnoreZone(d) == GetLocationType(d.box_center.x, d.box_center.y) = "ignore"

\* The class and position of each row, and of each detection of a list that
\* is outside the ignore zone, in order.
RowKeys(rows) == [i \in DOMAIN rows |-> <<rows[i].type, rows[i].x, rows[i].y>>]

DetKeys(detections) ==
    LET kept == SelectSeq(detections, LAMBDA d : ~InIgnoreZone(d))
    IN  [i \in DOMAIN kept |->
            <<kept[i].type, kept[i].box_center.x, kept[i].box_center.y>>]

\* C1: a reading whose speed_kph is at least the high-speed threshold makes
\* exactly two captures, separated by a sleep of the inter-shot delay,
\* whatever the captures return and whatever the cooldown state.
C1_TwoShotAlways ==
    (Handled /\ ev.speed_kph >= vehicle_speed_kph) =>
        /\ Len(ev.calls) = 3
        /\ IsCapture(ev.calls[1])
        /\ ev.calls[2] = <<"sleep", shot_interval_sec>>
        /\ IsCapture(ev.calls[3])
        /\ ev.calls[3][2] - ev.calls[1][2] >= shot_interval_sec
        /\ Len(ev.shots) = 2

\* A high-speed reading that arrives with person and bicycle on cooldown
\* and whose first capture returns nothing still takes the second shot.
C1_Witness ==
    /\ ev.branch = "high"
    /\ {"person", "bicycle"} \subseteq ev.cooling
    /\ ev.shots[1] = <<>>
    /\ ev.shots[2] # <<>>
    /\ Len(Captures(ev.calls)) = 2

C4_IgnoreNeverLogged ==
    [][/\ \A i \in DOMAIN ev'.rows :
            /\ ev'.rows[i].location # "ignore"
            /\ GetLocationType(ev'.rows[i].x, ev'.rows[i].y) # "ignore"
       /\ \A d \in Range(ev'.logged) :
            (\A e \in Range(ev'.logged) : e.type = d.type => InIgnoreZone(e))
                => cooldown_timers'[d.type] = cooldown_timers[d.type]]_vars

\* The primary target of a logged list lay in the ignore zone: no row.
C4_Witness ==
    /\ ev.primary # <<>>
    /\ InIgnoreZone(ev.primary[1])
    /\ Len(ev.logged) = 2
    /\ ev.rows = <<>>

\* C5: the cooldown expiry of a class never decreases.
C5_ExpiryMonotonic ==
    [][\A cls \in Classes : cooldown_timers'[cls] >= cooldown_timers[cls]]_vars

\* A class that was on cooldown when the reading arrived was logged again,
\* which extended its expiry.
C5_Witness ==
    \E i \in DOMAIN ev.rows :
        /\ ev.rows[i].type \in ev.cooling
        /\ cooldown_timers[ev.rows[i].type] = now + CooldownPeriod(ev.rows[i].type)

\* C6 (as claimed): in a logging cycle at most one written detection carries
\* the event's speed and direction; all others carry "Associated" in both.
C6_ExactlyOnePrimary ==
    /\ Cardinality({ i \in DOMAIN ev.rows : ev.rows[i].speed[1] # "Associated" })
            <= 1
    /\ Cardinality({ i \in DOMAIN ev.rows : ev.rows[i].direction # "Associated" })
            <= 1

\* C7 (as claimed): in the two-shot flow the direction is computed iff both
\* cycles have a primary target and the two are of the same class, and then
\* from the positions of these two primary targets.
C7_DirectionFromPrimaries ==
    ev.branch = "high" =>
        LET both == ev.shots[1] # <<>> /\ ev.shots[2] # <<>>
            p1 == PrimaryTarget(ev.shots[1])
            p2 == PrimaryTarget(ev.shots[2])
        IN  IF both /\ p1.type = p2.type
            THEN ev.direction = CalculateDirection(p1.box_center, p2.box_center)
            ELSE ev.direction = "N/A"

\* C8 (as claimed): a low-speed event writes no row for a class that is on
\* cooldown during the event, from the reading's arrival to the last write.
C8_NoRowOnCooldown ==
    [][ev'.branch = "low" =>
         \A i \in DOMAIN ev'.rows :
            now' >= cooldown_timers[ev'.rows[i].type]]_vars

BicycleSurvived ==
    ev.branch = "low" /\ \E d \in Range(ev.valid) : d.type = "bicycle"

\* C9 (as claimed): when a bicycle survives the first cycle's cooldown
\* filter, the rows written are those of the second cycle's list, for every
\* outcome of the second capture.
C9_SecondListLogged ==
    BicycleSurvived => RowKeys(ev.rows) = DetKeys(ev.shots[2])

\* C9 (amended): when a bicycle survives the filter, the rows written are
\* those of the second cycle's list if that list is non-empty, and those of
\* the filtered first-cycle list, with direction "N/A", if it is empty.
C9_SecondListIfNonEmpty ==
    BicycleSurvived =>
        IF ev.shots[2] # <<>>
        THEN RowKeys(ev.rows) = DetKeys(ev.shots[2])
        ELSE /\ RowKeys(ev.rows)
                    = DetKeys(SelectSeq(ev.shots[1],
                                LAMBDA d : d.type \notin ev.cooling))
             /\ \A i \in DOMAIN ev.rows :
                    ev.rows[i].direction \in {"N/A", "Associated"}

\* A bicycle survived and the second cycle returned another, non-empty list,
\* whose detections were written.
C9_Witness ==
    /\ BicycleSurvived
    /\ ev.shots[2] # <<>>
    /\ DetKeys(ev.shots[2]) # DetKeys(ev.shots[1])
    /\ ev.rows # <<>>

\* C10: the primary target of a logged list is its first vehicle-class
\* detection; without one, it is a detection at the least distance from the
\* frame centre (w/2, h/2).
C10_PrimarySelection ==
    ev.logged # <<>> =>
        /\ Len(ev.primary) = 1
        /\ LET p == ev.primary[1]
               l == ev.logged
               far(d) == (2 * d.box_center.x - LOGGER_CAPTURE_WIDTH)
                            * (2 * d.box_center.x - LOGGER_CAPTURE_WIDTH)
                         + (2 * d.box_center.y - LOGGER_CAPTURE_HEIGHT)
                            * (2 * d.box_center.y - LOGGER_CAPTURE_HEIGHT)
           IN  IF \E i \in DOMAIN l : l[i].type \in vehicle_classes
               THEN \E i \in DOMAIN l :
                        /\ p = l[i]
                        /\ l[i].type \in vehicle_classes
                        /\ \A j \in 1..(i - 1) : l[j].type \notin vehicle_classes
               ELSE /\ p \in Range(l)
                    /\ \A d \in Range(l) : far(p) <= far(d)

\* A vehicle was chosen over a detection nearer to the centre that precedes
\* it in the list.
C10_Witness ==
    /\ Len(ev.logged) = 2
    /\ ev.primary = <<ev.logged[2]>>
    /\ ev.logged[2].type \in vehicle_classes
    /\ ev.logged[1].type \notin vehicle_classes
    /\ Dist2(ev.logged[1], LOGGER_CAPTURE_WIDTH, LOGGER_CAPTURE_HEIGHT)
            < Dist2(ev.logged[2], LOGGER_CAPTURE_WIDTH, LOGGER_CAPTURE_HEIGHT)

\* The cooldown duration of a class: its own setting, else the default.
Cooldown(cls) ==
    CASE cls = "person"  -> cooldown_config_sec.person
      [] cls = "bicycle" -> cooldown_config_sec.bicycle
      [] OTHER           -> cooldown_config_sec.default

\* C11: when a list is logged, every detection outside the ignore zone gets
\* exactly one row, the rows are in list order, and the cooldown expiry of
\* each written class is the clock value of the write plus the class's
\* cooldown duration (the default for a class without its own setting); in
\* the two-shot flow this includes classes that were on cooldown.
C11_OneRowEach ==
    ev.logged # <<>> =>
        /\ RowKeys(ev.rows) = DetKeys(ev.logged)
        /\ \A i \in DOMAIN ev.rows :
                cooldown_timers[ev.rows[i].type] = now + Cooldown(ev.rows[i].type)

\* A two-shot flow wrote a class that was on cooldown, a bicycle and a car
\* (which has no setting of its own), one of them not the primary target.
C11_Witness ==
    /\ ev.branch = "high"
    /\ Len(ev.rows) = 3
    /\ \E i \in DOMAIN ev.rows : ev.rows[i].type \in ev.cooling
    /\ \E i \in DOMAIN ev.rows : ev.rows[i].type = "bicycle"
    /\ \E i \in DOMAIN ev.rows : ev.rows[i].type = "car"
    /\ \E i \in DOMAIN ev.rows : ev.rows[i].direction = "Associated"
    /\ cooldown_timers["car"] = now + cooldown_config_sec.default

\* C12: two or more written detections of one class in one cycle leave the
\* class's expiry at the clock value plus one cooldown duration.
C12_CooldownSetOnce ==
    \A cls \in Classes :
        Cardinality({ i \in DOMAIN ev.rows : ev.rows[i].type = cls }) >= 2
            => /\ cooldown_timers[cls] = now + Cooldown(cls)
               /\ cooldown_timers[cls] # now + 2 * Cooldown(cls)

\* Two bicycles were written in one cycle.
C12_Witness ==
    /\ Cardinality({ i \in DOMAIN ev.rows : ev.rows[i].type = "bicycle" }) = 2
    /\ cooldown_timers["bicycle"] = now + cooldown_config_sec.bicycle

\* C13: a capture or inference that fails counts as an empty detection list
\* of its cycle and the flow carries on to its end (a two-shot flow still
\* takes both shots and logs the second list); a two-shot flow one of whose
\* cycles is empty has direction "N/A".
C13_FailureIsEmptyList ==
    /\ \A k \in ev.failed :
            /\ k \in DOMAIN ev.shots
            /\ ev.shots[k] = <<>>
    /\ (ev.failed # {} /\ ev.branch = "high") =>
            /\ Len(Captures(ev.calls)) = 2
            /\ RowKeys(ev.rows) = DetKeys(ev.shots[2])
    /\ (ev.branch = "high" /\ (ev.shots[1] = <<>> \/ ev.shots[2] = <<>>)) =>
            /\ ev.direction = "N/A"
            /\ \A i \in DOMAIN ev.rows :
                    ev.rows[i].direction \in {"N/A", "Associated"}

\* The first capture of a two-shot flow failed; the second list was logged
\* without a direction.
C13_Witness ==
    /\ ev.branch = "high"
    /\ ev.failed = {1}
    /\ Len(ev.shots[2]) = 2
    /\ Len(ev.rows) = 2
    /\ ev.direction = "N/A"

LookupDone == call.fn = "_get_location_type" /\ call.result # "pending"

\* C14 (as claimed): on every zone map, also one whose grid is missing or
\* has fewer rows or columns than its dims, the zone lookup returns a
\* configured zone name, "unknown" or "out_of_bounds" and never raises.
C14_LookupNeverFails ==
    LookupDone =>
        call.result \in { zone_names[z] : z \in DOMAIN zone_names }
                            \cup {"unknown", "out_of_bounds"}

\* The quotient a / b (b > 0) with its fraction dropped
Trunc(a, b) ==
    CHOOSE q \in -100..100 :
        IF a >= 0 THEN q >= 0 /\ q * b <= a /\ a < (q + 1) * b
        ELSE q <= 0 /\ q * b >= a /\ a > (q - 1) * b

\* C15: on a zone map whose grid has a cell for every row and column, the
\* position (x, y) of the w x h frame belongs to the cell (col, row) =
\* (trunc(x*cols/w), trunc(y*rows/h)); the lookup gives "out_of_bounds"
\* exactly when col is outside [0, cols) or row outside [0, rows), else the
\* name of the cell's zone-id, or "unknown" when the id has no name.
C15_CellMapping ==
    (LookupDone /\ call.zone_map \in {"complete", "coarse"}) =>
        LET zm == ZoneMaps[call.zone_map]
            cols == zm.dims[1]
            rows == zm.dims[2]
            col == Trunc(call.x * cols, LOGGER_CAPTURE_WIDTH)
            row == Trunc(call.y * rows, LOGGER_CAPTURE_HEIGHT)
            outside == col < 0 \/ col >= cols \/ row < 0 \/ row >= rows
        IN  /\ (call.result = "out_of_bounds") <=> outside
            /\ (call.x >= LOGGER_CAPTURE_WIDTH \/ call.y >= LOGGER_CAPTURE_HEIGHT)
                    => call.result = "out_of_bounds"
            /\ (call.x = 0 /\ call.y = 0)
                    => call.result = zm.zones[zm.map[1][1]]
            /\ ~outside =>
                    LET id == zm.map[row + 1][col + 1]
                    IN  call.result = IF id \in DOMAIN zm.zones
                                      THEN zm.zones[id] ELSE "unknown"

\* A position just left of the frame was looked up: its quotient, a negative
\* fraction, is cut to column 0.
C15_Witness ==
    /\ LookupDone
    /\ call.zone_map = "complete"
    /\ call.x = -1 /\ call.y = 432
    /\ call.result = "ignore"

EstimateDone == call.fn = "_calculate_direction" /\ call.result # "pending"

\* The displacement of the estimated move
Dx == call.end_pos.x - call.start_pos.x
Dy == call.end_pos.y - call.start_pos.y

Magnitude(n) == IF n >= 0 THEN n ELSE 0 - n

Still == Magnitude(Dx) < 5 /\ Magnitude(Dy) < 5

\* C16: for every bearing, known to the compass maps or not, the estimator
\* returns "Stationary" for a displacement with |dx| < 5 and |dy| < 5, and
\* never for one with |dx| >= 5 or |dy| >= 5.
C16_StationaryIff ==
    EstimateDone => ((call.result = "Stationary") <=> Still)

\* A displacement of (4, -4) was estimated under a bearing the compass maps
\* do not know.
C16_Witness ==
    /\ EstimateDone
    /\ call.bearing = 45
    /\ Dx = 4 /\ Dy = -4
    /\ call.result = "Stationary"

\* The camera-relative direction of a displacement, by the four rules
Relative ==
    IF Magnitude(Dy) <= Dx THEN "Right"
    ELSE IF Dy > Magnitude(Dx) THEN "Down"
    ELSE IF 0 - Dy > Magnitude(Dx) THEN "Up"
    ELSE "Left"

\* C17: a displacement that is not stationary is Right when |dy| <= dx, Down
\* when dy > |dx|, Up when -dy > |dx| and Left otherwise; under bearing 0
\* Right is "E", Up "N", Down "S" and Left "W", so (+40, +2) gives "E".
C17_RelativeBuckets ==
    (EstimateDone /\ ~Still /\ call.bearing = 0) =>
        /\ call.result = CASE Relative = "Right" -> "E"
                            [] Relative = "Up"    -> "N"
                            [] Relative = "Down"  -> "S"
                            [] Relative = "Left"  -> "W"
        /\ (Dx = 40 /\ Dy = 2) => call.result = "E"

\* A displacement at exactly -45 degrees was estimated under bearing 0.
C17_Witness ==
    /\ EstimateDone
    /\ call.bearing = 0
    /\ Dx = 5 /\ Dy = -5
    /\ call.result = "E"

\* C18: under a bearing that is none of 0, 90, 180, 270 a displacement that
\* is not stationary gives the camera-relative label with the prefix
\* "Rel_", never a compass label.
C18_RelPrefix ==
    (EstimateDone /\ ~Still /\ call.bearing \notin {0, 90, 180, 270}) =>
        /\ call.result = CASE Relative = "Right" -> "Rel_Right"
                            [] Relative = "Down"  -> "Rel_Down"
                            [] Relative = "Up"    -> "Rel_Up"
                            [] Relative = "Left"  -> "Rel_Left"
        /\ call.result \notin {"N", "E", "S", "W"}

\* An upward move was estimated under bearing 360.
C18_Witness ==
    /\ EstimateDone
    /\ call.bearing = 360
    /\ Dx = 0 /\ Dy = -40
    /\ call.result = "Rel_Up"

\* The first-cycle detections of a conditional-shot flow whose class was not
\* on cooldown
Survivors == SelectSeq(ev.shots[1], LAMBDA d : d.type \notin ev.cooling)

BicycleAmong(detections) ==
    \E i \in DOMAIN detections : detections[i].type = "bicycle"

\* C19: a conditional-shot flow that was triggered makes exactly one capture
\* when its first cycle is empty, when all first-cycle detections are on
\* cooldown or when no bicycle survives the filter, and exactly two
\* captures, with a sleep of the inter-shot delay between them, when a
\* bicycle survives; no radar event makes more than two captures.
C19_CaptureCount ==
    /\ Len(Captures(ev.calls)) <= 2
    /\ ev.branch = "low" =>
            IF BicycleAmong(Survivors)
            THEN /\ Len(ev.calls) = 3
                 /\ IsCapture(ev.calls[1])
                 /\ ev.calls[2] = <<"sleep", shot_interval_sec>>
                 /\ IsCapture(ev.calls[3])
                 /\ ev.calls[3][2] - ev.calls[1][2] >= shot_interval_sec
            ELSE /\ Len(ev.calls) = 1
                 /\ IsCapture(ev.calls[1])

\* A low-speed flow saw a bicycle on cooldown next to a person that was
\* not, and made one capture.
C19_Witness ==
    /\ ev.branch = "low"
    /\ "bicycle" \in ev.cooling
    /\ BicycleAmong(ev.shots[1])
    /\ Survivors # <<>>
    /\ Len(Captures(ev.calls)) = 1

\* C20: in the conditional-shot flow, when some first-cycle detection
\* survives the cooldown filter and no survivor is a bicycle, the list
\* logged is the filtered first-cycle list, nothing on cooldown is written,
\* and the primary target's direction is "N/A".
C20_FilteredFirstList ==
    (ev.branch = "low" /\ Survivors # <<>> /\ ~BicycleAmong(Survivors)) =>
        /\ ev.logged = Survivors
        /\ RowKeys(ev.rows) = DetKeys(Survivors)
        /\ \A i \in DOMAIN ev.rows :
                /\ ev.rows[i].type \notin ev.cooling
                /\ ev.rows[i].direction \in {"N/A", "Associated"}
        /\ ev.direction = "N/A"

\* The first cycle held a person on cooldown and a car that was not; only
\* the car was written, without a direction.
C20_Witness ==
    /\ ev.branch = "low"
    /\ Len(ev.shots[1]) = 2
    /\ "person" \in ev.cooling
    /\ \E i \in DOMAIN ev.shots[1] : ev.shots[1][i].type = "person"
    /\ Len(ev.rows) = 1
    /\ ev.rows[1].type = "car"
    /\ ev.rows[1].direction = "N/A"

\* The classes of the detections of a list that lie outside the ignore zone
WrittenClasses(detections) ==
    { d.type : d \in { e \in Range(detections) : ~InIgnoreZone(e) } }

\* C21: the two-shot flow writes the rows of the second cycle's list and no
\* others; a class seen only in the first cycle keeps its cooldown expiry;
\* when the second cycle is empty nothing is written and no expiry changes,
\* whatever the first cycle held.
C21_OnlySecondLogged ==
    [][ev'.branch = "high" =>
         /\ RowKeys(ev'.rows) = DetKeys(ev'.shots[2])
         /\ \A cls \in Classes :
                cls \notin WrittenClasses(ev'.shots[2])
                    => cooldown_timers'[cls] = cooldown_timers[cls]
         /\ ev'.shots[2] = <<>> =>
                /\ ev'.rows = <<>>
                /\ cooldown_timers' = cooldown_timers]_vars

\* A two-shot flow saw a person only in its first cycle: the person has no
\* row and no cooldown, the car of the second cycle has both.
C21_Witness ==
    /\ ev.branch = "high"
    /\ \E i \in DOMAIN ev.shots[1] : ev.shots[1][i].type = "person"
    /\ ev.shots[2] = <<Det("car", 1400, 800)>>
    /\ Len(ev.rows) = 1
    /\ cooldown_timers["person"] = 0
    /\ cooldown_timers["car"] > 0

\* Four times the squared distance of a detection to the geometric centre
\* (w/2, h/2) of the frame
FromCentre(d) ==
    (2 * d.box_center.x - LOGGER_CAPTURE_WIDTH)
            * (2 * d.box_center.x - LOGGER_CAPTURE_WIDTH)
        + (2 * d.box_center.y - LOGGER_CAPTURE_HEIGHT)
            * (2 * d.box_center.y - LOGGER_CAPTURE_HEIGHT)

\* d is a bicycle of the list and no bicycle of the list is nearer to the
\* geometric centre
NearestBicycle(d, detections) ==
    /\ d.type = "bicycle"
    /\ d \in Range(detections)
    /\ \A e \in Range(detections) :
            e.type = "bicycle" => FromCentre(d) <= FromCentre(e)

\* C22 (as claimed): in a conditional-shot flow with a surviving bicycle,
\* the two positions the direction is computed from are those of the
\* bicycle nearest to the geometric centre (w/2, h/2) among the survivors
\* of the first cycle and among the detections of the second.
C22_BicycleNearestCentre ==
    (BicycleSurvived /\ ev.dir_from # <<>>) =>
        /\ NearestBicycle(ev.dir_from[1], ev.valid)
        /\ NearestBicycle(ev.dir_from[2], ev.shots[2])

\* C23 (as claimed): in both flows a row that carries a computed direction
\* (neither "N/A" nor "Associated") is the row of a detection of the class
\* of the two detections the direction was computed from.
C23_DirectionClassMatches ==
    \A i \in DOMAIN ev.rows :
        ev.rows[i].direction \notin {"N/A", "Associated"} =>
            /\ ev.dir_from # <<>>
            /\ ev.rows[i].type = ev.dir_from[1].type
            /\ ev.rows[i].type = ev.dir_from[2].type

\* C24: in every step the classes whose cooldown expiry is written are the
\* classes of the rows appended in that step; a reading that is ignored,
\* suppressed by the gate or aborted after filtering, or whose logged list
\* is empty or wholly in the ignore zone, appends no row and leaves every
\* expiry as it was.
C24_CooldownOnlyWithLog ==
    [][LET written == { ev'.rows[i].type : i \in DOMAIN ev'.rows }
       IN  /\ \A cls \in Classes :
                IF cls \in written
                THEN cooldown_timers'[cls] = now' + Cooldown(cls)
                ELSE cooldown_timers'[cls] = cooldown_timers[cls]
           /\ (\/ ev'.branch \in {"wait", "ignored", "suppressed"}
               \/ ev'.logged = <<>>
               \/ \A d \in Range(ev'.logged) : InIgnoreZone(d)) =>
                    /\ ev'.rows = <<>>
                    /\ cooldown_timers' = cooldown_timers]_vars

\* A conditional-shot flow was aborted after filtering, with a class on
\* cooldown whose expiry stayed as it was.
C24_Witness ==
    /\ ev.branch = "low"
    /\ ev.shots[1] # <<>>
    /\ ev.valid = <<>>
    /\ ev.rows = <<>>
    /\ \E cls \in ev.cooling : cooldown_timers[cls] > now

====
